---- MODULE Spec2Model ----
(***************************************************************************)
(* Model of the image processor service (app/routes.py, app/models.py,     *)
(* app/database.py): CSV upload, the background process_images run, the    *)
(* status query with its lazy output CSV, and the download endpoint.       *)
(*                                                                         *)
(* A string is modelled as a sequence of tokens: single characters, and   *)
(* whole URLs where the code never looks inside them.  A nullable column  *)
(* is a sequence of length 0 (NULL) or 1.                                  *)
(***************************************************************************)
EXTENDS Integers, Sequences, FiniteSets, TLC

\* ------------------------------------------------------------------ bounds
MaxJobs == 2      \* uploads that get as far as generating a request_id
MaxRows == 2      \* data rows of an uploaded CSV document
MaxStatus == 2    \* status queries counted per completed request

\* ------------------------------------------------------------ basic values
NULL == <<>>
Some(v) == <<v>>

RequestIds == 1..MaxJobs
UnknownId == 0

Whitespace == {" ", "\t"}
UpperCase == <<"A","B","C","D","E","F","G","H","I","J","K","L","M",
               "N","O","P","Q","R","S","T","U","V","W","X","Y","Z">>
LowerCase == <<"a","b","c","d","e","f","g","h","i","j","k","l","m",
               "n","o","p","q","r","s","t","u","v","w","x","y","z">>
Digits == {"0","1","2","3","4","5","6","7","8","9"}

\* str.lower() on one character
lower(c) ==
    IF \E n \in 1..Len(UpperCase) : UpperCase[n] = c
    THEN LowerCase[CHOOSE n \in 1..Len(UpperCase) : UpperCase[n] = c]
    ELSE c

\* the characters the regex class \w matches: letters, digits and underscore
IsWordChar(c) ==
    \/ \E n \in 1..Len(UpperCase) : c = UpperCase[n] \/ c = LowerCase[n]
    \/ c \in Digits
    \/ c = "_"

\* normalize(text): re.sub(r'\W+', '', text).lower()
normalize(text) ==
    LET kept == SelectSeq(text, IsWordChar)
    IN  [n \in 1..Len(kept) |-> lower(kept[n])]

\* str.strip(): what lies between the first and the last non-blank character
strip(text) ==
    LET solid == { n \in 1..Len(text) : text[n] \notin Whitespace }
    IN  IF solid = {} THEN <<>>
        ELSE SubSeq(text, CHOOSE n \in solid : \A m \in solid : n <= m,
                          CHOOSE n \in solid : \A m \in solid : m <= n)

\* str.split(sep): the pieces between the separators, always at least one piece
split(text, sep) ==
    LET cuts == { n \in 1..Len(text) : text[n] = sep }
        \* the position of the m-th separator; 0 and Len(text) + 1 bracket the text
        cut(m) == IF m = 0 THEN 0
                  ELSE IF m > Cardinality(cuts) THEN Len(text) + 1
                  ELSE CHOOSE n \in cuts : Cardinality({ x \in cuts : x < n }) = m - 1
    IN  [m \in 1..(Cardinality(cuts) + 1) |-> SubSeq(text, cut(m - 1) + 1, cut(m) - 1)]

\* sep.join(parts)
join(parts, sep) ==
    LET upto[n \in 0..Len(parts)] ==
            IF n = 0 THEN <<>>
            ELSE IF n = 1 THEN parts[1]
            ELSE upto[n - 1] \o <<sep>> \o parts[n]
    IN  upto[Len(parts)]

\* truth value of an optional string: None and "" are false
Truthy(opt) == opt # NULL /\ opt[1] # <<>>

\* ------------------------------------------------------------ upload inputs
expected_header == << <<"s","n","o">>,
                      <<"p","r","o","d","u","c","t","n","a","m","e">>,
                      <<"i","n","p","u","t","i","m","a","g","e","u","r","l","s">> >>

\* header rows a client may send
Headers ==
    { << <<"S","."," ","N","o">>,
         <<"P","r","o","d","u","c","t"," ","N","a","m","e">>,
         <<"I","n","p","u","t"," ","I","m","a","g","e"," ","U","r","l","s">> >>,
      << <<" ","s","n","o">>,
         <<"P","R","O","D","U","C","T","-","N","A","M","E"," ">>,
         <<"I","n","p","u","t","I","m","a","g","e","U","R","L","s">> >>,
      << <<"S","_","N","o">>,
         <<"P","r","o","d","u","c","t","_","N","a","m","e">>,
         <<"I","n","p","u","t","_","I","m","a","g","e","_","U","r","l","s">> >>,
      << <<"P","r","o","d","u","c","t"," ","N","a","m","e">>,
         <<"S","."," ","N","o">>,
         <<"I","n","p","u","t"," ","I","m","a","g","e"," ","U","r","l","s">> >>,
      << <<"S","."," ","N","o">>,
         <<"P","r","o","d","u","c","t"," ","N","a","m","e">> >> }

\* the data row a client may send as row n: three cells (a row with two URLs around
\* an empty piece, or a row with no URL at all), or a row with two cells
GoodRow(n) ==
    IF n % 2 = 1
    THEN << <<" ", ToString(n)>>, <<"W">>,
            <<"http://a", ",", " ", ",", " ", "http://b", " ">> >>
    ELSE << <<ToString(n)>>, <<"G", " ">>, <<" ">> >>
BadRow(n) == << <<ToString(n)>>, <<"H">> >>

RECURSIVE RowLists(_)
RowLists(n) ==
    IF n = 0 THEN { <<>> }
    ELSE RowLists(n - 1) \cup
         { Append(rs, r) : rs \in { x \in RowLists(n - 1) : Len(x) = n - 1 },
                           r \in { GoodRow(n), BadRow(n) } }

\* the parsed documents: the empty file, and a header followed by data rows
Documents == { <<>> } \cup { <<h>> \o rs : h \in Headers, rs \in RowLists(MaxRows) }

ContentTypes == { "text/csv", "image/png" }
WebhookUrls == { NULL, Some(<<>>), Some(<<"http://hook">>) }

\* ----------------------------------------------------------------- state
VARIABLES
    processing_requests,  \* committed table processing_requests, in insertion order
    products,             \* committed table products, in insertion order (id = index)
    upload,               \* the upload_csv call in progress and its session
    next_uuid,            \* the next request_id uuid4 hands out
    background_tasks,     \* request ids whose process_images run is scheduled, not yet started
    run,                  \* per request id: the process_images run and its session
    now,                  \* the clock datetime.utcnow() reads
    output_dir,           \* per request id: the output CSV file, NULL when absent
    scheduled,            \* history: add_task calls per request id
    submitted,            \* history: per request id, the data rows of its document
    rejected,             \* history: uploads answered 400 after line 158: the request id
                          \* and the products the session held
    processed_dir,        \* file names written under processed_images
    webhook_posts,        \* history: requests.post calls per request id
    csv_writes,           \* history: times the output CSV of a request id was written
    status_queries,       \* history: get_status calls per request id that found it completed
    attempts,             \* history: per request id, the (product id, place) of every
                          \* requests.get call of its run, in call order
    fetched,              \* history: what the last requests.get call met, where it is logged
    uploaded,             \* history: the last upload's content type and header and whether
                          \* it passed lines 139-156, where it is logged
    status_call           \* the get_status call in progress, where its reads are separate steps

vars == << processing_requests, products, upload, next_uuid, background_tasks, run, now,
           output_dir, processed_dir, scheduled, submitted, rejected, webhook_posts,
           csv_writes, status_queries, attempts, fetched, uploaded, status_call >>

\* ------------------------------------------------------------------ models
\* ProcessingRequest(request_id, status, callback_url): completed_at defaults to NULL
ProcessingRequest(request_id, status, callback_url) ==
    [ request_id |-> request_id, status |-> status,
      completed_at |-> NULL, callback_url |-> callback_url ]

\* Product(...): output_image_urls defaults to NULL
Product(request_id, serial_number, product_name, input_image_urls, status) ==
    [ request_id |-> request_id, serial_number |-> serial_number,
      product_name |-> product_name, input_image_urls |-> input_image_urls,
      output_image_urls |-> NULL, status |-> status ]

\* db.query(ProcessingRequest).filter(request_id == ...).first(): NULL or Some(record)
QueryRequest(request_id) ==
    LET hits == SelectSeq(processing_requests, LAMBDA r : r.request_id = request_id)
    IN  IF hits = <<>> THEN NULL ELSE Some(hits[1])

\* ids of db.query(Product).filter(request_id == ...).all()
QueryProductIds(request_id) ==
    SelectSeq([n \in 1..Len(products) |-> n],
              LAMBDA n : products[n].request_id = request_id)

QueryProducts(request_id) ==
    LET ids == QueryProductIds(request_id)
    IN  [n \in 1..Len(ids) |-> products[ids[n]]]

\* os.path.exists(OUTPUT_DIR/{request_id}_output.csv)
OutputExists(request_id) ==
    request_id \in DOMAIN output_dir /\ output_dir[request_id] # NULL

\* variant: the query of line 49 has no filter and every product is written
generate_output_csv_unfiltered(request_id) ==
    << << "S. No", "Product Name", "Input Image Urls", "Output Image Urls" >> >> \o
    [n \in 1..Len(products) |->
        << products[n].serial_number, products[n].product_name,
           products[n].input_image_urls,
           IF Truthy(products[n].output_image_urls)
           THEN products[n].output_image_urls[1] ELSE <<>> >>]

\* lines 49-61: the rows generate_output_csv writes, header first
generate_output_csv(request_id) ==
    LET rows == QueryProducts(request_id)
    IN  << << "S. No", "Product Name", "Input Image Urls", "Output Image Urls" >> >> \o
        [n \in 1..Len(rows) |->
            << rows[n].serial_number, rows[n].product_name, rows[n].input_image_urls,
               IF Truthy(rows[n].output_image_urls)
               THEN rows[n].output_image_urls[1] ELSE <<>> >>]

\* ------------------------------------------------------------------- Init
IdleUpload ==
    [ pc |-> "idle", code |-> 0, request_id |-> UnknownId,
      new_request |-> NULL, new_products |-> <<>>, rest |-> <<>> ]

\* no get_status call is between its reads
IdleStatus == [ pc |-> "idle", request_id |-> UnknownId, found |-> NULL ]

NoRun ==
    [ pc |-> "none", session |-> <<>>, i |-> 1, k |-> 1, new_urls |-> <<>>,
      resp |-> "" ]

Init ==
    /\ processing_requests = <<>>
    /\ products = <<>>
    /\ upload = IdleUpload
    /\ next_uuid = 1
    /\ background_tasks = {}
    /\ run = [j \in RequestIds |-> NoRun]
    /\ now = 1
    /\ output_dir = [j \in RequestIds |-> NULL]
    /\ processed_dir = {}
    /\ scheduled = [j \in RequestIds |-> 0]
    /\ submitted = [j \in RequestIds |-> 0]
    /\ rejected = {}
    /\ webhook_posts = [j \in RequestIds |-> 0]
    /\ csv_writes = [j \in RequestIds |-> 0]
    /\ status_queries = [j \in RequestIds |-> 0]
    /\ attempts = [j \in RequestIds |-> <<>>]
    /\ fetched = NULL
    /\ uploaded = NULL
    /\ status_call = IdleStatus

\* ------------------------------------------------------- POST /upload
\* what upload_csv leaves alone while it only touches its own session
UploadFrame ==
    UNCHANGED << processing_requests, products, background_tasks, run, now, output_dir,
                 processed_dir, attempts, scheduled, webhook_posts, csv_writes,
                 status_queries, fetched, uploaded, status_call >>

\* lines 139-156: wrong content type, empty file or unexpected header: 400
UploadInvalid(content_type, document) ==
    IF content_type # "text/csv" THEN TRUE
    ELSE IF document = <<>> THEN TRUE
    ELSE [n \in 1..Len(document[1]) |-> normalize(document[1][n])] # expected_header

\* the uploads a client may send, split by the answer of lines 139-156
InvalidUploads ==
    { u \in ContentTypes \X Documents : UploadInvalid(u[1], u[2]) }
ValidDocuments ==
    { document \in Documents : ~UploadInvalid("text/csv", document) }

UploadRejected ==
    /\ upload.pc = "idle"
    /\ InvalidUploads # {}
    /\ upload' = [IdleUpload EXCEPT !.code = 400]
    /\ UNCHANGED << next_uuid, submitted, rejected >>
    /\ UploadFrame

\* lines 158-164: a fresh request_id, the new request added to the session
UploadBegin ==
    /\ upload.pc = "idle"
    /\ next_uuid <= MaxJobs
    /\ \E document \in ValidDocuments, webhook_url \in WebhookUrls :
           /\ upload' = [ pc |-> "rows", code |-> 0, request_id |-> next_uuid,
                          new_request |->
                              Some(ProcessingRequest(next_uuid, "pending", webhook_url)),
                          new_products |-> <<>>,
                          rest |-> Tail(document) ]
           /\ submitted' = [submitted EXCEPT ![next_uuid] = Len(Tail(document))]
    /\ next_uuid' = next_uuid + 1
    /\ UNCHANGED rejected
    /\ UploadFrame

\* line 146 and line 151: the header row of a document, NULL for the empty file
HeaderOf(document) == IF document = <<>> THEN NULL ELSE Some(document[1])

\* lines 139-156 again, with the rejected upload kept in uploaded
UploadRejectedLogged ==
    /\ upload.pc = "idle"
    /\ \E u \in InvalidUploads :
           uploaded' = Some([ content_type |-> u[1], header |-> HeaderOf(u[2]),
                              passed |-> FALSE ])
    /\ upload' = [IdleUpload EXCEPT !.code = 400]
    /\ UNCHANGED << next_uuid, submitted, rejected >>
    /\ UNCHANGED << processing_requests, products, background_tasks, run, now, output_dir,
                    processed_dir, attempts, scheduled, webhook_posts, csv_writes,
                    status_queries, fetched, status_call >>

\* lines 139-164 again, with the upload that passed the header check kept in uploaded
UploadBeginLogged ==
    /\ upload.pc = "idle"
    /\ next_uuid <= MaxJobs
    /\ \E document \in ValidDocuments, webhook_url \in WebhookUrls :
           /\ upload' = [ pc |-> "rows", code |-> 0, request_id |-> next_uuid,
                          new_request |->
                              Some(ProcessingRequest(next_uuid, "pending", webhook_url)),
                          new_products |-> <<>>,
                          rest |-> Tail(document) ]
           /\ submitted' = [submitted EXCEPT ![next_uuid] = Len(Tail(document))]
           /\ uploaded' = Some([ content_type |-> "text/csv", header |-> HeaderOf(document),
                                 passed |-> TRUE ])
    /\ next_uuid' = next_uuid + 1
    /\ UNCHANGED rejected
    /\ UNCHANGED << processing_requests, products, background_tasks, run, now, output_dir,
                    processed_dir, attempts, scheduled, webhook_posts, csv_writes,
                    status_queries, fetched, status_call >>

\* variant: every added product is written to the tables at once, with its request
UploadAddRowFlushed ==
    /\ upload.pc = "rows"
    /\ upload.rest # <<>>
    /\ Len(Head(upload.rest)) = 3
    /\ LET row == Head(upload.rest)
           product == Product(upload.request_id, strip(row[1]), strip(row[2]),
                              strip(row[3]), "pending")
       IN  /\ upload' = [upload EXCEPT !.rest = Tail(@)]
           /\ products' = Append(products, product)
           /\ processing_requests' =
                  IF QueryRequest(upload.request_id) = NULL
                  THEN Append(processing_requests, upload.new_request[1])
                  ELSE processing_requests
    /\ UNCHANGED << next_uuid, background_tasks, run, now, output_dir, processed_dir, attempts,
                    scheduled, submitted, rejected, webhook_posts, csv_writes,
                    status_queries,
                    fetched, uploaded, status_call >>

\* lines 166-177: the next data row has 3 cells: a pending Product is added to the session
UploadAddRow ==
    /\ upload.pc = "rows"
    /\ upload.rest # <<>>
    /\ Len(Head(upload.rest)) = 3
    /\ LET row == Head(upload.rest)
           product == Product(upload.request_id, strip(row[1]), strip(row[2]),
                              strip(row[3]), "pending")
       IN  upload' = [upload EXCEPT !.new_products = Append(@, product),
                                    !.rest = Tail(@)]
    /\ UNCHANGED << next_uuid, submitted, rejected >>
    /\ UploadFrame

\* what get_db's db.close() does to a session that was never committed
CloseSession(u) ==
    [u EXCEPT !.pc = "idle", !.request_id = UnknownId, !.new_request = NULL,
              !.new_products = <<>>, !.rest = <<>>]

\* variant: the rejected upload's session is flushed to the tables when it is closed
UploadBadRowFlushed ==
    /\ upload.pc = "rows"
    /\ upload.rest # <<>>
    /\ Len(Head(upload.rest)) # 3
    /\ upload' = [CloseSession(upload) EXCEPT !.code = 400]
    /\ rejected' = rejected \cup
           { [request_id |-> upload.request_id, added |-> Len(upload.new_products)] }
    /\ processing_requests' = Append(processing_requests, upload.new_request[1])
    /\ products' = products \o upload.new_products
    /\ UNCHANGED << next_uuid, background_tasks, run, now, output_dir, processed_dir, attempts,
                    scheduled, submitted, webhook_posts, csv_writes, status_queries,
                    fetched, uploaded, status_call >>

\* lines 167-168 and 37-38: a row without exactly 3 cells: 400, the session is closed
UploadBadRow ==
    /\ upload.pc = "rows"
    /\ upload.rest # <<>>
    /\ Len(Head(upload.rest)) # 3
    /\ upload' = [CloseSession(upload) EXCEPT !.code = 400]
    /\ rejected' = rejected \cup
           { [request_id |-> upload.request_id, added |-> Len(upload.new_products)] }
    /\ UNCHANGED << processing_requests, products, next_uuid, background_tasks, run, now,
                    output_dir, processed_dir, attempts, scheduled, submitted, webhook_posts,
                    csv_writes, status_queries,
                    fetched, uploaded, status_call >>

\* lines 179-188: db.commit() inserts the request and its products in one transaction,
\* then the process_images run is scheduled and 200 is returned
UploadCommit ==
    /\ upload.pc = "rows"
    /\ upload.rest = <<>>
    /\ processing_requests' = Append(processing_requests, upload.new_request[1])
    /\ products' = products \o upload.new_products
    /\ background_tasks' = background_tasks \cup {upload.request_id}
    /\ scheduled' = [scheduled EXCEPT ![upload.request_id] = @ + 1]
    /\ upload' = [CloseSession(upload) EXCEPT !.code = 200]
    /\ UNCHANGED << next_uuid, run, now, output_dir, processed_dir, attempts, submitted, rejected,
                    webhook_posts, csv_writes, status_queries,
                    fetched, uploaded, status_call >>

\* variant: the run is scheduled although the commit raised
UploadCommitFailsSchedules ==
    /\ upload.pc = "rows"
    /\ upload.rest = <<>>
    /\ background_tasks' = background_tasks \cup {upload.request_id}
    /\ scheduled' = [scheduled EXCEPT ![upload.request_id] = @ + 1]
    /\ upload' = [CloseSession(upload) EXCEPT !.code = 500]
    /\ UNCHANGED << processing_requests, products, next_uuid, run, now, output_dir,
                    processed_dir, attempts, submitted, rejected, webhook_posts,
                    csv_writes, status_queries, fetched, uploaded, status_call >>

\* lines 181-183: db.commit() raises: rollback, 500, nothing scheduled
UploadCommitFails ==
    /\ upload.pc = "rows"
    /\ upload.rest = <<>>
    /\ upload' = [CloseSession(upload) EXCEPT !.code = 500]
    /\ UNCHANGED << next_uuid, submitted, rejected >>
    /\ UploadFrame

\* --------------------------------------------------- process_images
\* what requests.get and the image pipeline of lines 82-92 can do for one URL
FetchOutcomes ==
    { [kind |-> "response", status_code |-> 200, decodes |-> TRUE],
      [kind |-> "response", status_code |-> 200, decodes |-> FALSE],
      [kind |-> "response", status_code |-> 201, decodes |-> TRUE],
      [kind |-> "response", status_code |-> 404, decodes |-> FALSE],
      [kind |-> "timeout", status_code |-> 0, decodes |-> FALSE],
      [kind |-> "connection_error", status_code |-> 0, decodes |-> FALSE] }

\* lines 83-92: the URL yields a local file
FetchSucceeds(outcome) ==
    outcome.kind = "response" /\ outcome.status_code = 200 /\ outcome.decodes

\* line 86: uuid4 gives every attempt its own name; here the attempt's place names it
new_filename(product_id, k) == ToString(product_id) \o "-" \o ToString(k) \o ".jpg"

\* line 91
local_url(filename) == << "/processed_images/" \o filename >>

\* line 76: the pieces of a loaded product's input_image_urls
input_urls(product) == split(product.input_image_urls, ",")

\* the product the loop of line 74 is at
Current(j) == run[j].session[run[j].i]

RunFrame ==
    UNCHANGED << processing_requests, products, upload, next_uuid, now, output_dir,
                 scheduled, submitted, rejected, webhook_posts, csv_writes,
                 status_queries, fetched, uploaded, status_call >>

\* lines 71-73: the scheduled task starts and loads the request's products
StartRun(j) ==
    /\ j \in background_tasks
    /\ run[j].pc = "none"
    /\ background_tasks' = background_tasks \ {j}
    /\ LET ids == QueryProductIds(j)
       IN  run' = [run EXCEPT ![j] =
                      [ pc |-> "rows",
                        session |-> [n \in 1..Len(ids) |->
                                        [id |-> ids[n], obj |-> products[ids[n]]]],
                        i |-> 1, k |-> 1, new_urls |-> <<>>, resp |-> "" ]]
    /\ UNCHANGED << processed_dir, attempts >>
    /\ RunFrame

\* lines 125-129: an exception escaped: rollback, the session's changes are dropped
Rollback(r) == [r EXCEPT !.pc = "aborted", !.session = <<>>, !.new_urls = <<>>]

\* line 73 raises
StartRunFails(j) ==
    /\ j \in background_tasks
    /\ run[j].pc = "none"
    /\ background_tasks' = background_tasks \ {j}
    /\ run' = [run EXCEPT ![j] = Rollback(@)]
    /\ UNCHANGED << processed_dir, attempts >>
    /\ RunFrame

\* lines 77-80: a piece that is empty after strip() is skipped
SkipEmptyUrl(j) ==
    /\ run[j].pc = "rows"
    /\ run[j].i <= Len(run[j].session)
    /\ run[j].k <= Len(input_urls(Current(j).obj))
    /\ strip(input_urls(Current(j).obj)[run[j].k]) = <<>>
    /\ run' = [run EXCEPT ![j].k = @ + 1]
    /\ UNCHANGED << background_tasks, processed_dir, attempts >>
    /\ RunFrame

\* variant: a failed attempt is not caught per URL and ends the run
FetchUrlRaises(j) ==
    /\ run[j].pc = "rows"
    /\ run[j].i <= Len(run[j].session)
    /\ run[j].k <= Len(input_urls(Current(j).obj))
    /\ strip(input_urls(Current(j).obj)[run[j].k]) # <<>>
    /\ \E outcome \in FetchOutcomes :
          LET filename == new_filename(Current(j).id, run[j].k)
          IN  /\ processed_dir' = IF FetchSucceeds(outcome)
                                  THEN processed_dir \cup {filename} ELSE processed_dir
              /\ run' = IF FetchSucceeds(outcome)
                        THEN [run EXCEPT ![j].k = @ + 1,
                                         ![j].new_urls = Append(@, local_url(filename))]
                        ELSE [run EXCEPT ![j] = Rollback(@)]
    /\ attempts' = [attempts EXCEPT ![j] = Append(@, << Current(j).id, run[j].k >>)]
    /\ UNCHANGED background_tasks
    /\ RunFrame

\* variant: a failed attempt leaves an empty entry in the row's list
FetchUrlPlaceholder(j) ==
    /\ run[j].pc = "rows"
    /\ run[j].i <= Len(run[j].session)
    /\ run[j].k <= Len(input_urls(Current(j).obj))
    /\ strip(input_urls(Current(j).obj)[run[j].k]) # <<>>
    /\ \E outcome \in FetchOutcomes :
          LET filename == new_filename(Current(j).id, run[j].k)
          IN  /\ processed_dir' = IF FetchSucceeds(outcome)
                                  THEN processed_dir \cup {filename} ELSE processed_dir
              /\ run' = [run EXCEPT
                            ![j].k = @ + 1,
                            ![j].new_urls = IF FetchSucceeds(outcome)
                                            THEN Append(@, local_url(filename))
                                            ELSE Append(@, <<"">>)]
    /\ attempts' = [attempts EXCEPT ![j] = Append(@, << Current(j).id, run[j].k >>)]
    /\ UNCHANGED background_tasks
    /\ RunFrame

\* variant: after a failed attempt the rest of the row is given up
FetchUrlGivesUp(j) ==
    /\ run[j].pc = "rows"
    /\ run[j].i <= Len(run[j].session)
    /\ run[j].k <= Len(input_urls(Current(j).obj))
    /\ strip(input_urls(Current(j).obj)[run[j].k]) # <<>>
    /\ \E outcome \in FetchOutcomes :
          LET filename == new_filename(Current(j).id, run[j].k)
          IN  /\ processed_dir' = IF FetchSucceeds(outcome)
                                  THEN processed_dir \cup {filename} ELSE processed_dir
              /\ run' = IF FetchSucceeds(outcome)
                        THEN [run EXCEPT ![j].k = @ + 1,
                                         ![j].new_urls = Append(@, local_url(filename))]
                        ELSE [run EXCEPT ![j].k = Len(input_urls(Current(j).obj)) + 1]
    /\ attempts' = [attempts EXCEPT ![j] = Append(@, << Current(j).id, run[j].k >>)]
    /\ UNCHANGED background_tasks
    /\ RunFrame

\* lines 81-96: one attempt at one URL; only a success adds a local URL
FetchUrl(j) ==
    /\ run[j].pc = "rows"
    /\ run[j].i <= Len(run[j].session)
    /\ run[j].k <= Len(input_urls(Current(j).obj))
    /\ strip(input_urls(Current(j).obj)[run[j].k]) # <<>>
    /\ \E outcome \in FetchOutcomes :
          LET filename == new_filename(Current(j).id, run[j].k)
          IN  /\ processed_dir' = IF FetchSucceeds(outcome)
                                  THEN processed_dir \cup {filename} ELSE processed_dir
              /\ run' = [run EXCEPT
                            ![j].k = @ + 1,
                            ![j].new_urls = IF FetchSucceeds(outcome)
                                            THEN Append(@, local_url(filename)) ELSE @]
    /\ attempts' = [attempts EXCEPT ![j] = Append(@, << Current(j).id, run[j].k >>)]
    /\ UNCHANGED background_tasks
    /\ RunFrame

\* lines 81-96 again, with what requests.get met kept in fetched
FetchUrlLogged(j) ==
    /\ run[j].pc = "rows"
    /\ run[j].i <= Len(run[j].session)
    /\ run[j].k <= Len(input_urls(Current(j).obj))
    /\ strip(input_urls(Current(j).obj)[run[j].k]) # <<>>
    /\ \E outcome \in FetchOutcomes :
          LET filename == new_filename(Current(j).id, run[j].k)
          IN  /\ processed_dir' = IF FetchSucceeds(outcome)
                                  THEN processed_dir \cup {filename} ELSE processed_dir
              /\ run' = [run EXCEPT
                            ![j].k = @ + 1,
                            ![j].new_urls = IF FetchSucceeds(outcome)
                                            THEN Append(@, local_url(filename)) ELSE @]
              /\ fetched' = Some(outcome)
    /\ attempts' = [attempts EXCEPT ![j] = Append(@, << Current(j).id, run[j].k >>)]
    /\ UNCHANGED << processing_requests, products, upload, next_uuid, background_tasks,
                    now, output_dir, scheduled, submitted, rejected, webhook_posts,
                    csv_writes, status_queries, uploaded, status_call >>

\* variant: a row is marked processed only when a URL of it succeeded
ProcessedProductIfAny(product, new_urls) ==
    [product EXCEPT !.output_image_urls = Some(join(new_urls, ",")),
                    !.status = IF new_urls # <<>> THEN "processed" ELSE @]

\* lines 98-100: the loaded product is changed in the session
ProcessedProduct(product, new_urls) ==
    [product EXCEPT !.output_image_urls = Some(join(new_urls, ",")),
                    !.status = "processed"]

\* lines 98-102: every piece of the row was visited
FinishRow(j) ==
    /\ run[j].pc = "rows"
    /\ run[j].i <= Len(run[j].session)
    /\ run[j].k > Len(input_urls(Current(j).obj))
    /\ run' = [run EXCEPT ![j].session[run[j].i].obj =
                              ProcessedProduct(@, run[j].new_urls),
                          ![j].i = @ + 1, ![j].k = 1, ![j].new_urls = <<>>]
    /\ UNCHANGED << background_tasks, processed_dir, attempts >>
    /\ RunFrame

\* the products table after the session's changed products are flushed
FlushProducts(session) ==
    [n \in 1..Len(products) |->
        IF \E m \in 1..Len(session) : session[m].id = n
        THEN session[CHOOSE m \in 1..Len(session) : session[m].id = n].obj
        ELSE products[n]]

\* variant: the status is set and completed_at is forgotten
CompletedRequestStatusOnly(request) ==
    [request EXCEPT !.status = "completed"]

\* lines 106-109: the request is marked completed in the session
CompletedRequest(request) ==
    [request EXCEPT !.status = "completed", !.completed_at = Some(now)]

\* variant: the query of line 105 has no filter and marks the first request of the table
FlushRequestUnfiltered(j) ==
    [n \in 1..Len(processing_requests) |->
        IF n = 1 THEN CompletedRequest(processing_requests[n])
        ELSE processing_requests[n]]

\* the processing_requests table after line 110 for request j
FlushRequest(j) ==
    [n \in 1..Len(processing_requests) |->
        IF processing_requests[n].request_id = j /\ QueryRequest(j) # NULL
        THEN CompletedRequest(processing_requests[n])
        ELSE processing_requests[n]]

\* variant: the run writes the output CSV itself when it commits
CompleteRequestWritesCsv(j) ==
    /\ run[j].pc = "rows"
    /\ run[j].i > Len(run[j].session)
    /\ products' = FlushProducts(run[j].session)
    /\ processing_requests' = FlushRequest(j)
    /\ now' = now + 1
    /\ run' = [run EXCEPT ![j].pc = "committed"]
    /\ output_dir' = [output_dir EXCEPT ![j] = Some(generate_output_csv(j))]
    /\ UNCHANGED << upload, next_uuid, background_tasks, processed_dir, attempts, scheduled,
                    submitted, rejected, webhook_posts, csv_writes, status_queries,
                    fetched, uploaded, status_call >>

\* lines 105-110: after the last row, one commit writes every product and the request
CompleteRequest(j) ==
    /\ run[j].pc = "rows"
    /\ run[j].i > Len(run[j].session)
    /\ products' = FlushProducts(run[j].session)
    /\ processing_requests' = FlushRequest(j)
    /\ now' = now + 1
    /\ run' = [run EXCEPT ![j].pc = "committed"]
    /\ UNCHANGED << upload, next_uuid, background_tasks, output_dir, processed_dir, attempts,
                    scheduled, submitted, rejected, webhook_posts, csv_writes,
                    status_queries,
                    fetched, uploaded, status_call >>

\* variant: the rows changed so far reach the table although the run is given up
CompleteRequestFailsKeepsRows(j) ==
    /\ run[j].pc = "rows"
    /\ run[j].i > Len(run[j].session)
    /\ products' = FlushProducts(run[j].session)
    /\ run' = [run EXCEPT ![j] = Rollback(@)]
    /\ UNCHANGED << processing_requests, upload, next_uuid, background_tasks, now,
                    output_dir, processed_dir, attempts, scheduled, submitted, rejected,
                    webhook_posts, csv_writes, status_queries, fetched, uploaded,
                    status_call >>

\* line 105 or line 110 raises
CompleteRequestFails(j) ==
    /\ run[j].pc = "rows"
    /\ run[j].i > Len(run[j].session)
    /\ run' = [run EXCEPT ![j] = Rollback(@)]
    /\ UNCHANGED << background_tasks, processed_dir, attempts >>
    /\ RunFrame

\* what requests.post of line 119 can do
WebhookOutcomes == { "2xx", "non-2xx", "exception" }

\* line 113, read after the commit
HasCallback(j) == QueryRequest(j) # NULL /\ Truthy(QueryRequest(j)[1].callback_url)

\* variant: a call that did not answer 2xx is tried again
AfterWebhookRetry(r, outcome) ==
    IF outcome = "2xx" THEN [r EXCEPT !.pc = "done", !.session = <<>>, !.resp = outcome]
    ELSE [r EXCEPT !.resp = outcome]

\* what the webhook call does to the run, whatever the outcome (lines 114-123, 129)
AfterWebhook(r, outcome) == [r EXCEPT !.pc = "done", !.session = <<>>, !.resp = outcome]

\* variant: a call that did not answer 2xx puts the request back to pending
CallWebhookUndoes(j) ==
    /\ run[j].pc = "committed"
    /\ HasCallback(j)
    /\ \E outcome \in WebhookOutcomes :
           /\ run' = [run EXCEPT ![j] = AfterWebhook(@, outcome)]
           /\ processing_requests' =
                  IF outcome = "2xx" THEN processing_requests
                  ELSE [n \in 1..Len(processing_requests) |->
                           IF processing_requests[n].request_id = j
                           THEN [processing_requests[n] EXCEPT !.status = "pending",
                                                               !.completed_at = NULL]
                           ELSE processing_requests[n]]
    /\ webhook_posts' = [webhook_posts EXCEPT ![j] = @ + 1]
    /\ UNCHANGED << products, upload, next_uuid, background_tasks, now, output_dir,
                    processed_dir, attempts, scheduled, submitted, rejected, csv_writes,
                    status_queries,
                    fetched, uploaded, status_call >>

\* lines 113-123: one POST; a bad status or an exception is only printed
CallWebhook(j) ==
    /\ run[j].pc = "committed"
    /\ HasCallback(j)
    /\ \E outcome \in WebhookOutcomes :
           run' = [run EXCEPT ![j] = AfterWebhook(@, outcome)]
    /\ webhook_posts' = [webhook_posts EXCEPT ![j] = @ + 1]
    /\ UNCHANGED << processing_requests, products, upload, next_uuid, background_tasks,
                    now, output_dir, processed_dir, attempts, scheduled, submitted, rejected,
                    csv_writes, status_queries,
                    fetched, uploaded, status_call >>

\* line 113 false: no callback_url
NoWebhook(j) ==
    /\ run[j].pc = "committed"
    /\ ~HasCallback(j)
    /\ run' = [run EXCEPT ![j].pc = "done", ![j].session = <<>>]
    /\ UNCHANGED << background_tasks, processed_dir, attempts >>
    /\ RunFrame

\* ------------------------------------------- GET /status, GET /download
\* lines 192-223: what get_status answers in the current committed state
StatusResponse(request_id) ==
    LET found == QueryRequest(request_id)
        rows == QueryProducts(request_id)
    IN  IF found = NULL
        THEN [ code |-> 404 ]
        ELSE [ code |-> 200,
               request_id |-> found[1].request_id,
               status |-> found[1].status,
               completed_at |-> found[1].completed_at,
               callback_url |-> found[1].callback_url,
               products |-> [n \in 1..Len(rows) |->
                                [ serial_number |-> rows[n].serial_number,
                                  product_name |-> rows[n].product_name,
                                  input_image_urls |-> rows[n].input_image_urls,
                                  output_image_urls |-> rows[n].output_image_urls,
                                  status |-> rows[n].status ]],
               output_csv_link |->
                   IF found[1].status = "completed"
                   THEN Some("/download/" \o ToString(request_id)) ELSE NULL ]

\* variant: the file is written without looking whether it exists
WritesOutputCsvAlways(request_id) ==
    /\ StatusResponse(request_id).code = 200
    /\ StatusResponse(request_id).status = "completed"

\* lines 217-220: whether this call of get_status writes the output CSV
WritesOutputCsv(request_id) ==
    /\ StatusResponse(request_id).code = 200
    /\ StatusResponse(request_id).status = "completed"
    /\ ~OutputExists(request_id)

\* the request is known and its committed status is completed
IsCompleted(request_id) ==
    /\ StatusResponse(request_id).code = 200
    /\ StatusResponse(request_id).status = "completed"

\* lines 190-223: a status query; its only write is the missing CSV of a completed request
GetStatus(request_id) ==
    /\ IsCompleted(request_id) => status_queries[request_id] < MaxStatus
    /\ IF WritesOutputCsv(request_id)
       THEN /\ output_dir' = [output_dir EXCEPT
                                 ![request_id] = Some(generate_output_csv(request_id))]
            /\ csv_writes' = [csv_writes EXCEPT ![request_id] = @ + 1]
       ELSE UNCHANGED << output_dir, csv_writes >>
    /\ status_queries' =
           IF IsCompleted(request_id)
           THEN [status_queries EXCEPT ![request_id] = @ + 1]
           ELSE status_queries
    /\ UNCHANGED << processing_requests, products, upload, next_uuid, background_tasks,
                    run, now, processed_dir, attempts, scheduled, submitted, rejected,
                    webhook_posts, fetched, uploaded, status_call >>

\* lines 192-194 as a step of their own: the request is read; 404 ends the call
GetStatusLoad(request_id) ==
    /\ status_call.pc = "idle"
    /\ IsCompleted(request_id) => status_queries[request_id] < MaxStatus
    /\ status_call' =
           IF QueryRequest(request_id) = NULL THEN IdleStatus
           ELSE [ pc |-> "loaded", request_id |-> request_id,
                  found |-> QueryRequest(request_id) ]
    /\ UNCHANGED << processing_requests, products, upload, next_uuid, background_tasks,
                    run, now, output_dir, processed_dir, attempts, scheduled, submitted,
                    rejected, webhook_posts, csv_writes, status_queries, fetched,
                    uploaded >>

\* lines 196-223: what the call in progress answers when it reads the products now
StatusCallResponse ==
    LET request == status_call.found[1]
        rows == QueryProducts(status_call.request_id)
    IN  [ code |-> 200,
          request_id |-> request.request_id,
          status |-> request.status,
          completed_at |-> request.completed_at,
          callback_url |-> request.callback_url,
          products |-> [n \in 1..Len(rows) |->
                           [ serial_number |-> rows[n].serial_number,
                             product_name |-> rows[n].product_name,
                             input_image_urls |-> rows[n].input_image_urls,
                             output_image_urls |-> rows[n].output_image_urls,
                             status |-> rows[n].status ]],
          output_csv_link |->
              IF request.status = "completed"
              THEN Some("/download/" \o ToString(status_call.request_id)) ELSE NULL ]

\* variant: the request is read again to decide whether the output CSV is written
StatusCallWritesCsvReloaded ==
    /\ IsCompleted(status_call.request_id)
    /\ ~OutputExists(status_call.request_id)

\* variant: the missing output CSV is written whatever the status that was read
StatusCallWritesCsvAnyStatus ==
    ~OutputExists(status_call.request_id)

\* lines 217-220: whether the call in progress writes the output CSV
StatusCallWritesCsv ==
    /\ status_call.found[1].status = "completed"
    /\ ~OutputExists(status_call.request_id)

\* lines 196-223 as a step of their own: the products are read, the answer is built and
\* the missing CSV of a request that was read as completed is written
GetStatusReturn ==
    /\ status_call.pc = "loaded"
    /\ LET request_id == status_call.request_id
       IN  /\ IF StatusCallWritesCsv
              THEN /\ output_dir' = [output_dir EXCEPT
                                        ![request_id] = Some(generate_output_csv(request_id))]
                   /\ csv_writes' = [csv_writes EXCEPT ![request_id] = @ + 1]
              ELSE UNCHANGED << output_dir, csv_writes >>
           /\ status_queries' =
                  IF status_call.found[1].status = "completed"
                  THEN [status_queries EXCEPT ![request_id] = @ + 1]
                  ELSE status_queries
    /\ status_call' = IdleStatus
    /\ UNCHANGED << processing_requests, products, upload, next_uuid, background_tasks,
                    run, now, processed_dir, attempts, scheduled, submitted, rejected,
                    webhook_posts, fetched, uploaded >>

\* lines 227-230: what download_output_csv answers in the current state
DownloadResponse(request_id) ==
    IF OutputExists(request_id)
    THEN [ code |-> 200, file |-> output_dir[request_id][1] ]
    ELSE [ code |-> 404 ]

\* lines 225-230: a download reads the file and writes nothing
Download(request_id) ==
    /\ DownloadResponse(request_id).code \in {200, 404}
    /\ UNCHANGED vars

\* ------------------------------------------------------------ specification
QueryIds == RequestIds \cup {UnknownId}

Next ==
    \/ UploadRejected
    \/ UploadBegin
    \/ UploadAddRow
    \/ UploadBadRow
    \/ UploadCommit
    \/ UploadCommitFails
    \/ \E j \in RequestIds : StartRun(j)
    \/ \E j \in RequestIds : StartRunFails(j)
    \/ \E j \in RequestIds : SkipEmptyUrl(j)
    \/ \E j \in RequestIds : FetchUrl(j)
    \/ \E j \in RequestIds : FinishRow(j)
    \/ \E j \in RequestIds : CompleteRequest(j)
    \/ \E j \in RequestIds : CompleteRequestFails(j)
    \/ \E j \in RequestIds : CallWebhook(j)
    \/ \E j \in RequestIds : NoWebhook(j)
    \/ \E request_id \in QueryIds : GetStatus(request_id)
    \/ \E request_id \in QueryIds : Download(request_id)

Spec == Init /\ [][Next]_vars

\* one step of the process_images run of request j
RunStep(j) ==
    \/ StartRun(j)
    \/ SkipEmptyUrl(j)
    \/ FetchUrl(j)
    \/ FinishRow(j)
    \/ CompleteRequest(j)
    \/ CallWebhook(j)
    \/ NoWebhook(j)

\* the service when no database call raises.  Status and download requests are left
\* out: they write no table and nothing a run reads.
NextNoStoreFailure ==
    \/ UploadRejected
    \/ UploadBegin
    \/ UploadAddRow
    \/ UploadBadRow
    \/ UploadCommit
    \/ \E j \in RequestIds : RunStep(j)

\* the worker threads keep going: while some run can take a step, some run takes one
LiveSpec ==
    /\ Init
    /\ [][NextNoStoreFailure]_vars
    /\ WF_vars(\E j \in RequestIds : RunStep(j))

\* the service with every requests.get call logged, when no database call raises.
\* Status and download requests are left out: they touch nothing a fetch reads or writes.
NextFetchLogged ==
    \/ UploadRejected
    \/ UploadBegin
    \/ UploadAddRow
    \/ UploadBadRow
    \/ UploadCommit
    \/ \E j \in RequestIds : StartRun(j)
    \/ \E j \in RequestIds : SkipEmptyUrl(j)
    \/ \E j \in RequestIds : FetchUrlLogged(j)
    \/ \E j \in RequestIds : FinishRow(j)
    \/ \E j \in RequestIds : CompleteRequest(j)
    \/ \E j \in RequestIds : CallWebhook(j)
    \/ \E j \in RequestIds : NoWebhook(j)

FetchSpec == Init /\ [][NextFetchLogged]_vars

\* the upload endpoint with every upload logged; the scheduled runs have not started
NextUploadLogged ==
    \/ UploadRejectedLogged
    \/ UploadBeginLogged
    \/ UploadAddRow
    \/ UploadBadRow
    \/ UploadCommit
    \/ UploadCommitFails

UploadSpec == Init /\ [][NextUploadLogged]_vars

\* the service with the two reads of get_status as separate steps, so that a run's
\* commit can fall between them
NextStatusSplit ==
    \/ UploadRejected
    \/ UploadBegin
    \/ UploadAddRow
    \/ UploadBadRow
    \/ UploadCommit
    \/ UploadCommitFails
    \/ \E j \in RequestIds : StartRun(j)
    \/ \E j \in RequestIds : StartRunFails(j)
    \/ \E j \in RequestIds : SkipEmptyUrl(j)
    \/ \E j \in RequestIds : FetchUrl(j)
    \/ \E j \in RequestIds : FinishRow(j)
    \/ \E j \in RequestIds : CompleteRequest(j)
    \/ \E j \in RequestIds : CompleteRequestFails(j)
    \/ \E j \in RequestIds : CallWebhook(j)
    \/ \E j \in RequestIds : NoWebhook(j)
    \/ \E request_id \in QueryIds : GetStatusLoad(request_id)
    \/ GetStatusReturn
    \/ \E request_id \in QueryIds : Download(request_id)

RaceSpec == Init /\ [][NextStatusSplit]_vars

\* ------------------------------------------------------------------ claims
FailedResponses == { "non-2xx", "exception" }

RejectedIds == { r.request_id : r \in rejected }

\* every committed product of request j is processed
AllProcessed(j) ==
    \A n \in 1..Len(QueryProducts(j)) : QueryProducts(j)[n].status = "processed"

\* C1, state part: nothing of an upload rejected after its request_id was made is in
\* the tables, a status query for it answers 404, and no run was scheduled for it
RejectedUploadInvisible ==
    \A id \in RejectedIds :
        /\ QueryRequest(id) = NULL
        /\ QueryProductIds(id) = <<>>
        /\ StatusResponse(id).code = 404
        /\ scheduled[id] = 0
        /\ id \notin background_tasks
        /\ run[id].pc = "none"

\* C1, step part: a step that answers an upload with 400 changes no table and schedules
\* no run
RejectStepWritesNothing ==
    (upload' # upload /\ upload'.code = 400) =>
        /\ processing_requests' = processing_requests
        /\ products' = products
        /\ background_tasks' = background_tasks
        /\ scheduled' = scheduled

\* C1: every rejected upload (content type, empty file, header, a row without exactly 3
\* cells, also after valid rows) is answered 400, leaves the tables unchanged, stays
\* invisible to every later status query and gets no run scheduled
C1_RejectedUploadLeavesNoTrace ==
    []RejectedUploadInvisible /\ [][RejectStepWritesNothing]_vars

\* C1 witness: an upload was rejected at a row that followed a valid row, and a later
\* upload was accepted, completed and queried
C1_Witness ==
    \E r \in rejected, j \in RequestIds :
        /\ r.added >= 1
        /\ r.request_id < j
        /\ upload.code = 400
        /\ status_queries[j] >= 1

\* C2, state part: a request in the table has all the rows of its document, every
\* product row has its request, and a request id names one request
RequestHasAllRows ==
    /\ \A j \in RequestIds :
           QueryRequest(j) # NULL => Len(QueryProductIds(j)) = submitted[j]
    /\ \A n \in 1..Len(products) : QueryRequest(products[n].request_id) # NULL
    /\ \A n, m \in 1..Len(processing_requests) :
           processing_requests[n].request_id = processing_requests[m].request_id => n = m

\* C2, step part: the step that makes request j visible adds one pending request
\* without completed_at and its N pending products without output URLs
AcceptStepAddsPending ==
    \A j \in RequestIds :
        (QueryRequest(j) = NULL /\ QueryRequest(j)' # NULL) =>
            /\ Len(processing_requests') = Len(processing_requests) + 1
            /\ Len(products') = Len(products) + submitted[j]
            /\ QueryRequest(j)'[1].status = "pending"
            /\ QueryRequest(j)'[1].completed_at = NULL
            /\ \A n \in 1..Len(QueryProducts(j)') :
                   /\ QueryProducts(j)'[n].status = "pending"
                   /\ QueryProducts(j)'[n].output_image_urls = NULL

\* C2: an accepted upload with N data rows adds, in one step, one pending request
\* without completed_at and N pending products without output URLs; no state shows the
\* request with fewer rows or a row without its request
C2_AcceptedUploadIsAtomic ==
    []RequestHasAllRows /\ [][AcceptStepAddsPending]_vars

\* C2 witness: a request with no data row and a request with 2 data rows are both in
\* the tables, the second still pending
C2_Witness ==
    \E j1, j2 \in RequestIds :
        /\ QueryRequest(j1) # NULL /\ submitted[j1] = 0
        /\ QueryRequest(j2) # NULL /\ submitted[j2] = 2
        /\ QueryRequest(j2)[1].status = "pending"
        /\ Len(QueryProducts(j2)) = 2

\* C3: in every committed state, completed_at is set exactly for the completed requests
C3_CompletedAtIffCompleted ==
    \A n \in 1..Len(processing_requests) :
        (processing_requests[n].completed_at # NULL)
            <=> (processing_requests[n].status = "completed")

\* C3 witness: one request is completed with its time set, another is pending without
C3_Witness ==
    \E n, m \in 1..Len(processing_requests) :
        /\ processing_requests[n].status = "completed"
        /\ processing_requests[n].completed_at # NULL
        /\ processing_requests[m].status = "pending"
        /\ processing_requests[m].completed_at = NULL

\* C4: in every committed state, every product of a completed request is processed,
\* also a product none of whose URLs gave a file
C4_CompletedImpliesAllProcessed ==
    \A j \in RequestIds : IsCompleted(j) => AllProcessed(j)

\* C4 witness: a completed request with two products, one whose URLs all failed and one
\* without any URL, both processed with no output URL
C4_Witness ==
    \E j \in RequestIds :
        /\ IsCompleted(j)
        /\ Len(QueryProducts(j)) = 2
        /\ \A n \in 1..2 :
               /\ QueryProducts(j)[n].status = "processed"
               /\ QueryProducts(j)[n].output_image_urls = Some(<<>>)

\* C5 (as claimed): while a run is under way, every row whose fetch loop it has
\* finished is reported processed, with its output URLs, by a status query
C5_FinishedRowsReportedProcessed ==
    \A j \in RequestIds :
        (run[j].pc = "rows" /\ StatusResponse(j).code = 200) =>
            \A m \in 1..(run[j].i - 1) :
                /\ StatusResponse(j).products[m].status = "processed"
                /\ StatusResponse(j).products[m].output_image_urls =
                       run[j].session[m].obj.output_image_urls

\* C6: when no database call raises and the runs keep being scheduled, every request
\* in the table is eventually completed, whatever its fetches and its webhook do
C6_EveryAcceptedJobCompletes ==
    \A j \in RequestIds : (QueryRequest(j) # NULL) ~> IsCompleted(j)

\* C6 witness: a request is completed although every fetch of its first row failed and
\* its webhook call raised
C6_Witness ==
    \E j \in RequestIds :
        /\ IsCompleted(j)
        /\ run[j].pc = "done"
        /\ run[j].resp = "exception"
        /\ Len(QueryProducts(j)) >= 1
        /\ QueryProducts(j)[1].input_image_urls # <<>>
        /\ QueryProducts(j)[1].output_image_urls = Some(<<>>)

FailedWebhookWritesNothing ==
    \A j \in RequestIds :
        (run[j].pc = "committed" /\ run'[j].pc = "done"
            /\ run'[j].resp \in FailedResponses) =>
                /\ processing_requests' = processing_requests
                /\ products' = products

\* C8, state part: after a failed webhook call the request is completed with its time
\* set and its products are processed
FailedWebhookKeepsCompletion ==
    \A j \in RequestIds :
        run[j].resp \in FailedResponses =>
            /\ IsCompleted(j)
            /\ QueryRequest(j)[1].completed_at # NULL
            /\ AllProcessed(j)

\* C8: a webhook call answered non-2xx or ended by an exception leaves the tables as
\* they were: the request stays completed with its completed_at, the products keep
\* their status and output URLs
C8_FailedWebhookLeavesStore ==
    []FailedWebhookKeepsCompletion /\ [][FailedWebhookWritesNothing]_vars

\* C8 witness: the webhook call of a completed request raised
C8_Witness ==
    \E j \in RequestIds :
        /\ run[j].pc = "done"
        /\ run[j].resp = "exception"
        /\ webhook_posts[j] = 1
        /\ IsCompleted(j)
        /\ Len(QueryProducts(j)) >= 1

\* C9: however many status queries found a request completed, its output CSV was
\* written once, by the first of them; the file holds what generating it again would
\* write, and every such query gives the same link
C9_OutputCsvWrittenOnce ==
    \A j \in RequestIds :
        /\ csv_writes[j] = (IF status_queries[j] >= 1 THEN 1 ELSE 0)
        /\ OutputExists(j) <=> csv_writes[j] = 1
        /\ OutputExists(j) => output_dir[j][1] = generate_output_csv(j)
        /\ IsCompleted(j) =>
               StatusResponse(j).output_csv_link = Some("/download/" \o ToString(j))

\* C9 witness: two status queries found the request completed and the file was written
\* once
C9_Witness ==
    \E j \in RequestIds :
        /\ status_queries[j] = 2
        /\ csv_writes[j] = 1
        /\ Len(output_dir[j][1]) = 3

\* C10: the output CSV of a request exists only if the request is completed and a
\* status query found it so; download answers 404 for an unknown request, for one that
\* is not completed, and for a completed one no status query has seen yet
C10_OutputCsvOnlyAfterStatusQuery ==
    /\ \A j \in RequestIds :
           OutputExists(j) => (IsCompleted(j) /\ status_queries[j] >= 1)
    /\ \A id \in QueryIds :
           (~IsCompleted(id) \/ status_queries[id] = 0) =>
               DownloadResponse(id).code = 404

\* C10 witness: a run is done and its request completed, no status query has seen it,
\* and download answers 404; the file of another request exists
C10_Witness ==
    \E j1, j2 \in RequestIds :
        /\ IsCompleted(j1) /\ run[j1].pc = "done" /\ status_queries[j1] = 0
        /\ DownloadResponse(j1).code = 404
        /\ DownloadResponse(j2).code = 200
        /\ DownloadResponse(UnknownId).code = 404

\* the references a product's output_image_urls holds, in order
OutputUrls(product) ==
    IF Truthy(product.output_image_urls)
    THEN split(product.output_image_urls[1], ",") ELSE <<>>

\* the places of product n's input URLs whose fetch saved a file, in input order
SavedPlaces(n) ==
    SelectSeq([k \in 1..Len(input_urls(products[n])) |-> k],
              LAMBDA k : new_filename(n, k) \in processed_dir)

\* C11: the output URLs of a processed product are the references of the input URLs
\* whose fetch saved a file, one each, in input order; none stands for a failed or an
\* empty piece, so there are at most as many as non-empty input URLs
C11_OutputUrlsAreTheSuccesses ==
    \A n \in 1..Len(products) :
        products[n].status = "processed" =>
            LET pieces == input_urls(products[n])
                saved == SavedPlaces(n)
                refs == OutputUrls(products[n])
            IN  /\ refs = [m \in 1..Len(saved) |-> local_url(new_filename(n, saved[m]))]
                /\ \A m \in 1..Len(saved) : strip(pieces[saved[m]]) # <<>>
                /\ Len(refs) <= Cardinality({ k \in 1..Len(pieces) :
                                                 strip(pieces[k]) # <<>> })
                /\ Len(refs) <= Len(pieces)

\* C11 witness: a processed product with three pieces, one empty, whose first URL
\* failed and whose last URL succeeded: one output URL, that of the last
C11_Witness ==
    \E n \in 1..Len(products) :
        /\ products[n].status = "processed"
        /\ Len(input_urls(products[n])) = 3
        /\ new_filename(n, 1) \notin processed_dir
        /\ OutputUrls(products[n]) = << local_url(new_filename(n, 3)) >>

\* C12 (as claimed): an attempt that met a response whose body decodes adds an output
\* reference to the row's list exactly when the status code is between 200 and 299
C12_Every2xxDecodableYieldsReference ==
    [][\A j \in RequestIds :
          (attempts'[j] # attempts[j] /\ fetched' # NULL
              /\ fetched'[1].kind = "response" /\ fetched'[1].decodes) =>
                  ((Len(run'[j].new_urls) = Len(run[j].new_urls) + 1)
                      <=> (200 <= fetched'[1].status_code
                              /\ fetched'[1].status_code <= 299))]_vars

\* letters and digits
IsAlphanumeric(c) ==
    \/ \E n \in 1..Len(UpperCase) : c = UpperCase[n] \/ c = LowerCase[n]
    \/ c \in Digits

\* a header cell with every character that is not a letter or digit deleted, lower-cased
AlphanumericLower(text) ==
    LET kept == SelectSeq(text, IsAlphanumeric)
    IN  [n \in 1..Len(kept) |-> lower(kept[n])]

\* C13 (as claimed): a CSV upload with a header row passes the header check exactly when
\* the header has three cells that, with every character that is not a letter or digit
\* deleted and lower-cased, are sno, productname, inputimageurls in that order
C13_HeaderMatchIgnoresNonAlphanumerics ==
    (uploaded # NULL /\ uploaded[1].content_type = "text/csv"
        /\ uploaded[1].header # NULL) =>
            LET header == uploaded[1].header[1]
            IN  uploaded[1].passed <=>
                    /\ Len(header) = 3
                    /\ [n \in 1..Len(header) |-> AlphanumericLower(header[n])]
                           = expected_header

\* C14, state part: the request of an aborted run is pending without completed_at, all
\* its products are pending without output URLs and it got no POST; no request is failed
AbortedRunLeftNothing ==
    /\ \A j \in RequestIds :
           run[j].pc = "aborted" =>
               /\ QueryRequest(j) # NULL
               /\ QueryRequest(j)[1].status = "pending"
               /\ QueryRequest(j)[1].completed_at = NULL
               /\ \A n \in 1..Len(QueryProducts(j)) :
                      /\ QueryProducts(j)[n].status = "pending"
                      /\ QueryProducts(j)[n].output_image_urls = NULL
               /\ webhook_posts[j] = 0
    /\ \A n \in 1..Len(processing_requests) : processing_requests[n].status # "failed"

\* C14, step part: the step in which a run is aborted changes no table
AbortStepWritesNothing ==
    \A j \in RequestIds :
        (run[j].pc # "aborted" /\ run'[j].pc = "aborted") =>
            /\ processing_requests' = processing_requests
            /\ products' = products
            /\ webhook_posts' = webhook_posts

\* C14: when a database call of a run raises before or at its commit, the rollback
\* leaves the request pending without completed_at and every product pending without
\* output URLs, also the products whose URLs were all visited; no POST is made and no
\* request is ever failed
C14_AbortedRunIsRolledBack ==
    []AbortedRunLeftNothing /\ [][AbortStepWritesNothing]_vars

\* C14 witness: a run was aborted after it visited its two rows and saved a file for
\* the first; the request has a callback_url and is still pending
C14_Witness ==
    \E j \in RequestIds :
        /\ run[j].pc = "aborted"
        /\ Len(QueryProducts(j)) = 2
        /\ Len(attempts[j]) = 2
        /\ new_filename(QueryProductIds(j)[1], 1) \in processed_dir
        /\ HasCallback(j)
        /\ StatusResponse(j).status = "pending"

\* C15: whenever a status call returns, wherever the run's commit fell between its two
\* reads: an answer with status completed lists every product as processed, has
\* completed_at and the download link; an answer with another status has no link, and
\* the call writes no output CSV
C15_StatusAnswerConsistentUnderRace ==
    [][(status_call.pc = "loaded" /\ status_call'.pc = "idle") =>
          LET answer == StatusCallResponse
          IN  /\ answer.status = "completed" =>
                     /\ \A n \in 1..Len(answer.products) :
                            answer.products[n].status = "processed"
                     /\ answer.completed_at # NULL
                     /\ answer.output_csv_link # NULL
              /\ answer.status # "completed" =>
                     /\ answer.output_csv_link = NULL
                     /\ output_dir' = output_dir
                     /\ csv_writes' = csv_writes]_vars

\* C15 witness: a status call read the request as pending, the run committed before the
\* call read the products, and the call is about to answer pending with two processed
\* products and no link
C15_Witness ==
    /\ status_call.pc = "loaded"
    /\ IsCompleted(status_call.request_id)
    /\ StatusCallResponse.status = "pending"
    /\ StatusCallResponse.output_csv_link = NULL
    /\ Len(StatusCallResponse.products) = 2
    /\ \A n \in 1..2 : StatusCallResponse.products[n].status = "processed"
    /\ ~OutputExists(status_call.request_id)

\* the (product id, place) of every non-empty input URL of request j
UrlPlaces(j) ==
    UNION { { << n, k >> : k \in { k \in 1..Len(input_urls(products[n])) :
                                       strip(input_urls(products[n])[k]) # <<>> } } :
            n \in { n \in 1..Len(products) : products[n].request_id = j } }

\* p comes before q: an earlier row, or the same row and an earlier URL
PlaceBefore(p, q) == p[1] < q[1] \/ (p[1] = q[1] /\ p[2] < q[2])

\* a set of places as the sequence that visits rows in load order, URLs in input order
InVisitOrder(places) ==
    [m \in 1..Cardinality(places) |->
        CHOOSE p \in places :
            Cardinality({ q \in places : PlaceBefore(q, p) }) = m - 1]

\* the places a run has passed when it stands at row i, place k of its session
PlacesPassed(j) ==
    { p \in UrlPlaces(j) :
          \/ run[j].i > Len(run[j].session)
          \/ PlaceBefore(p, << Current(j).id, run[j].k >>) }

\* C16, state part: the requests.get calls of a run so far are its non-empty input URLs
\* up to where it stands, each once, rows in load order and URLs in input order,
\* whatever the earlier attempts met; a run past its loop has attempted them all
EveryUrlAttemptedOnceInOrder ==
    \A j \in RequestIds :
        /\ run[j].pc = "none" => attempts[j] = <<>>
        /\ run[j].pc = "rows" => attempts[j] = InVisitOrder(PlacesPassed(j))
        /\ run[j].pc \in { "committed", "done" } =>
               attempts[j] = InVisitOrder(UrlPlaces(j))
        /\ run[j].pc = "aborted" =>
               attempts[j] \in { <<>>, InVisitOrder(UrlPlaces(j)) }

\* C16, step part: a step makes at most one attempt, and only on the run's next URL
OneAttemptPerStep ==
    \A j \in RequestIds :
        \/ attempts'[j] = attempts[j]
        \/ /\ run[j].pc = "rows"
           /\ attempts'[j] = Append(attempts[j], << Current(j).id, run[j].k >>)
           /\ \A h \in RequestIds \ {j} : attempts'[h] = attempts[h]

OnlyKnownStatuses ==
    /\ \A n \in 1..Len(processing_requests) :
           processing_requests[n].status \in { "pending", "completed" }
    /\ \A n \in 1..Len(products) : products[n].status \in { "pending", "processed" }

\* C17, step part: no step deletes a record, the only status change of a request is
\* pending to completed, and no step changes a completed request or any of its products
CompletedIsFinal ==
    /\ Len(processing_requests') >= Len(processing_requests)
    /\ Len(products') >= Len(products)
    /\ \A n \in 1..Len(products) : products'[n].request_id = products[n].request_id
    /\ \A n \in 1..Len(processing_requests) :
           LET old == processing_requests[n]
               new == processing_requests'[n]
           IN  /\ new.request_id = old.request_id
               /\ new.status # old.status =>
                      (old.status = "pending" /\ new.status = "completed")
               /\ old.status = "completed" =>
                      /\ new = old
                      /\ QueryProducts(old.request_id)' = QueryProducts(old.request_id)

\* C17: the only status change of a request is pending to completed, once; after it no
\* status query, download, webhook call or upload changes the request's status or
\* completed_at or its products' status and output URLs; no record is deleted, and no
\* other status value is ever in the tables
C17_OnlyPendingToCompleted ==
    []OnlyKnownStatuses /\ [][CompletedIsFinal]_vars

\* C17 witness: a request was completed, got its POST and was queried; a request
\* uploaded after it was completed later; the first still has its completion time
C17_Witness ==
    \E j1, j2 \in RequestIds :
        /\ j1 < j2
        /\ IsCompleted(j1) /\ IsCompleted(j2)
        /\ QueryRequest(j1)[1].completed_at = Some(1)
        /\ QueryRequest(j2)[1].completed_at = Some(2)
        /\ webhook_posts[j1] = 1
        /\ status_queries[j1] >= 1
        /\ AllProcessed(j1) /\ Len(QueryProducts(j1)) = 2

\* C18, state part: a request id has one scheduling when its request is in the table
\* and none otherwise; a scheduled or started run has its request and all its products
\* in the tables; a request id never has a waiting task beside a started run
OneRunPerStoredRequest ==
    \A j \in RequestIds :
        /\ scheduled[j] = (IF QueryRequest(j) # NULL THEN 1 ELSE 0)
        /\ (j \in background_tasks \/ run[j].pc # "none") =>
               /\ scheduled[j] = 1
               /\ QueryRequest(j) # NULL
               /\ Len(QueryProductIds(j)) = submitted[j]
        /\ ~(j \in background_tasks /\ run[j].pc # "none")

\* C18, step part: a run is scheduled only by the step that answers the upload with 200
\* and puts the request in the table, for the request id made for this upload, which no
\* record and no earlier rejection carries; the step that answers 500 schedules nothing
\* and writes nothing
ScheduledOnlyByAcceptedUpload ==
    /\ \A j \in RequestIds :
           scheduled'[j] # scheduled[j] =>
               /\ scheduled[j] = 0 /\ scheduled'[j] = 1
               /\ j = upload.request_id /\ j = next_uuid - 1
               /\ j \notin RejectedIds
               /\ QueryRequest(j) = NULL /\ QueryProductIds(j) = <<>>
               /\ QueryRequest(j)' # NULL
               /\ upload'.code = 200
               /\ j \in background_tasks' /\ run'[j].pc = "none"
    /\ (upload' # upload /\ upload'.code = 500) =>
           /\ scheduled' = scheduled
           /\ background_tasks' = background_tasks
           /\ processing_requests' = processing_requests
           /\ products' = products

\* C18: every accepted upload schedules one run, in the step that commits its request
\* and products, for a request id no earlier upload had; no request id has two runs,
\* no run starts without its records in the tables, and a commit that raises (500)
\* schedules none
C18_OneRunPerAcceptedUpload ==
    []OneRunPerStoredRequest /\ [][ScheduledOnlyByAcceptedUpload]_vars

\* C18 witness: the commit of one upload raised, so its request id has no record and no
\* run; a later upload with two rows was accepted and its single run has started
C18_Witness ==
    \E j1, j2 \in RequestIds :
        /\ j1 < j2
        /\ QueryRequest(j1) = NULL /\ j1 \notin RejectedIds
        /\ scheduled[j1] = 0 /\ run[j1].pc = "none"
        /\ scheduled[j2] = 1 /\ run[j2].pc = "rows"
        /\ j2 \notin background_tasks
        /\ Len(run[j2].session) = 2

\* the output CSV cell that lists the files saved for product n, joined by commas
SavedUrlsJoined(n) ==
    join([m \in 1..Len(SavedPlaces(n)) |-> local_url(new_filename(n, SavedPlaces(n)[m]))],
         ",")

\* C19: the output CSV of a request with N rows has N + 1 records: the header, then for
\* the n-th row of the upload its serial number, its product name, its input URLs as
\* stored and the references of its saved files joined by commas, empty when there is
\* none; these are the values the completed request's products hold
C19_OutputCsvListsEveryRow ==
    \A j \in RequestIds :
        OutputExists(j) =>
            LET file == output_dir[j][1]
                ids == QueryProductIds(j)
            IN  /\ Len(file) = submitted[j] + 1
                /\ Len(ids) = submitted[j]
                /\ file[1] = << "S. No", "Product Name", "Input Image Urls",
                                "Output Image Urls" >>
                /\ \A n \in 1..Len(ids) :
                       /\ file[n + 1][1] = << ToString(n) >>
                       /\ file[n + 1][1] = products[ids[n]].serial_number
                       /\ file[n + 1][2] = products[ids[n]].product_name
                       /\ file[n + 1][3] = products[ids[n]].input_image_urls
                       /\ file[n + 1][4] = SavedUrlsJoined(ids[n])
                       /\ products[ids[n]].status = "processed"
                       /\ products[ids[n]].output_image_urls = Some(file[n + 1][4])

\* C19 witness: the output CSV of a request with two rows, whose products follow another
\* request's in the table: three records, the first row with two references, the
\* second with none
C19_Witness ==
    \E j \in RequestIds :
        /\ OutputExists(j)
        /\ Len(output_dir[j][1]) = 3
        /\ QueryProductIds(j)[1] > 1
        /\ Len(split(output_dir[j][1][2][4], ",")) = 2
        /\ output_dir[j][1][3][4] = <<>>

\* a step that changes a table or an output CSV file
WritesStore ==
    \/ processing_requests' # processing_requests
    \/ products' # products
    \/ output_dir' # output_dir

\* C20, status part: a step that changes a table or a file is no status call for an
\* unknown request id (which ends in 404); the first read of a known request writes
\* nothing; the rest of the call changes no table, and the only file it touches is the
\* output CSV of its own request, read as completed, which it creates when absent
StatusCallFrame ==
    /\ WritesStore =>
           \A request_id \in QueryIds :
               ~(QueryRequest(request_id) = NULL /\ GetStatusLoad(request_id))
    /\ (status_call.pc = "idle" /\ status_call'.pc = "loaded") =>
           /\ processing_requests' = processing_requests
           /\ products' = products
           /\ output_dir' = output_dir
    /\ (status_call.pc = "loaded" /\ status_call'.pc = "idle") =>
           /\ processing_requests' = processing_requests
           /\ products' = products
           /\ status_call.found[1].status # "completed" => output_dir' = output_dir
           /\ \A j \in RequestIds :
                  output_dir'[j] # output_dir[j] =>
                      /\ j = status_call.request_id
                      /\ status_call.found[1].status = "completed"
                      /\ IsCompleted(j)
                      /\ output_dir[j] = NULL
                      /\ output_dir'[j] = Some(generate_output_csv(j))

\* C20, download part: a step that changes a table or a file is no download
DownloadFrame ==
    WritesStore => \A request_id \in QueryIds : ~Download(request_id)

\* C20: a status query for an unknown request id or for a request that is not
\* completed, and every download, leave the tables and the output CSV files as they
\* are; the only write of either endpoint is the missing output CSV of a completed
\* request
C20_StatusAndDownloadFrame ==
    [][StatusCallFrame /\ DownloadFrame]_vars

\* C20 witness: a status call is in progress on a request it read as pending, which has
\* no output CSV; the file of another, completed request exists and was written once
\* although it was queried twice; a status query for the unknown id would answer 404
C20_Witness ==
    \E j \in RequestIds :
        /\ status_call.pc = "loaded"
        /\ status_call.request_id # j
        /\ status_call.found[1].status = "pending"
        /\ ~OutputExists(status_call.request_id)
        /\ Len(QueryProducts(status_call.request_id)) >= 1
        /\ IsCompleted(j) /\ status_queries[j] = 2 /\ csv_writes[j] = 1
        /\ DownloadResponse(j).code = 200
        /\ DownloadResponse(status_call.request_id).code = 404
        /\ StatusResponse(UnknownId).code = 404

====
